---- MODULE Spec2Model ----
(***************************************************************************)
(* bevy_tileset, src/plugin/loader.rs: the tileset loading pipeline.       *)
(*                                                                         *)
(* on_load_tileset_event / load_tiles ingest a TilesetLoadRequest into the *)
(* TilesetHandlesMap; create_tileset scans the map once per frame and      *)
(* builds, registers and announces every group whose handles are loaded.   *)
(* The asset server (texture loading) is the environment.                  *)
(***************************************************************************)
EXTENDS Integers, Sequences, FiniteSets, TLC

\* ----------------------------------------------------------------- bounds
\* LoadTiles events processed in one behaviour
MaxRequests == 2
\* texture handles created in one behaviour
MaxHandles == 4

\* ------------------------------------------------------------ Option<usize>
None == <<>>
Some(n) == <<n>>

\* ------------------------------------------------------------- file system
\* A directory listing under assets/, in the order read_dir yields it. A file
\* has an extension and, for a .ron file, the outcome of ron::de::from_bytes.
RonOk == [ext |-> "ron", parse |-> "Ok"]
RonErr == [ext |-> "ron", parse |-> "Err"]
Png == [ext |-> "png", parse |-> "Err"]

Assets ==
    [d \in {"grass", "mixed", "broken"} |->
        CASE d = "grass" -> <<RonOk, Png>>
          [] d = "mixed" -> <<RonOk, RonErr, Png, RonOk, RonErr, RonOk>>
          [] d = "broken" -> <<RonErr, RonErr>>]

\* TilesetDirs::from_dir (lines 139-144)
from_dir(tile_directory) ==
    [tile_directory |-> tile_directory, texture_directory |-> tile_directory]

\* the dirs of the requests sent: none, one directory (good, mixed, malformed
\* only, missing), a good one before a missing one, a malformed-only one
\* before a good one
DirLists ==
    {<<>>,
     <<from_dir("grass")>>, <<from_dir("mixed")>>, <<from_dir("broken")>>,
     <<from_dir("missing")>>,
     <<from_dir("grass"), from_dir("missing")>>,
     <<from_dir("broken"), from_dir("grass")>>}

\* TilesetLoadRequest (lines 34-47); the empty name asks for a generated one
TilesetLoadRequest ==
    [name : {"", "grass"}, dirs : DirLists, max_columns : {None, Some(2)}]

\* ------------------------------------------------------------------- state
VARIABLES
    handles_map,   \* TilesetHandlesMap: name -> TilesetGenerationRequest
    load_state,    \* asset server: handle id -> "Loading" | "Loaded" | "Dropped"
    tilesets,      \* Tilesets store: the registered tilesets, in order
    next_id,       \* Tilesets: the next tileset id
    events,        \* LoadedTileset events written, in order
    effects,       \* create_tileset's calls of register and send, in order
    warnings,      \* warn! lines written by load_tiles
    uuids,         \* names drawn from get_unique_name
    requests,      \* LoadTiles events read so far
    panicked,      \* load_tiles panicked (line 249)
    system         \* the system that ran last

vars == <<handles_map, load_state, tilesets, next_id, events, effects, warnings,
          uuids, requests, panicked, system>>

\* TilesetGenerationRequest::default (lines 65-69); handles and is_dirty are
\* the handle list and the flag of its TilesetHandles
TilesetGenerationRequest_default ==
    [handles |-> <<>>, is_dirty |-> FALSE, max_columns |-> None]

\* TilesetHandles::len
len(request) == Len(request.handles)

\* TilesetHandles::is_loaded
is_loaded(request, asset_server) ==
    \A i \in 1..Len(request.handles) : asset_server[request.handles[i]] = "Loaded"

\* get_unique_name (lines 282-284): the n-th UUID drawn
get_unique_name(n) == "uuid-" \o ToString(n)

\* ------------------------------------------------------------- asset server
\* AssetServer::load: a new handle, its texture loading in the background
asset_server_load(asset_server) == Append(asset_server, "Loading")

\* Dropping the last strong handle of a texture frees the asset.
RECURSIVE drop_handles(_, _)
drop_handles(handles, asset_server) ==
    IF handles = <<>> THEN asset_server
    ELSE drop_handles(Tail(handles),
                      [asset_server EXCEPT ![Head(handles)] = "Dropped"])

\* ------------------------------------------------------------- load_tiles
\* TilesetHandles::add_tile: load the tile's texture and keep its handle.
\* st = [request, load_state, warnings, panicked]
add_tile(st) ==
    LET asset_server == asset_server_load(st.load_state)
    IN  [st EXCEPT !.load_state = asset_server,
                   !.request.handles = Append(@, Len(asset_server))]

\* lines 251-256: the .ron files of a directory
config_files(dir) == SelectSeq(dir, LAMBDA file : file.ext = "ron")

\* mutant: the loop of line 259 ends at the first definition that fails to parse
RECURSIVE load_handles_until_error(_, _)
load_handles_until_error(files, st) ==
    IF files = <<>> THEN st
    ELSE IF Head(files).parse = "Ok"
         THEN load_handles_until_error(Tail(files), add_tile(st))
         ELSE [st EXCEPT !.warnings = @ + 1]

\* lines 259-275: one handle per definition that parses, one warning per
\* definition that does not
RECURSIVE load_handles(_, _)
load_handles(files, st) ==
    IF files = <<>> THEN st
    ELSE LET config_file == Head(files)
             after == IF config_file.parse = "Ok"
                      THEN add_tile(st)
                      ELSE [st EXCEPT !.warnings = @ + 1]
         IN  load_handles(Tail(files), after)

\* mutant: line 278 is missing, no directory pass marks the entry dirty
RECURSIVE load_dirs_never_dirty(_, _)
load_dirs_never_dirty(dirs, st) ==
    IF dirs = <<>> THEN st
    ELSE LET tile_directory == Head(dirs).tile_directory
         IN  IF tile_directory \notin DOMAIN Assets
             THEN [st EXCEPT !.panicked = TRUE]
             ELSE load_dirs_never_dirty(
                      Tail(dirs),
                      load_handles(config_files(Assets[tile_directory]), st))

\* mutant: line 278 marks the entry dirty only when the directory added a handle
RECURSIVE load_dirs_dirty_on_add(_, _)
load_dirs_dirty_on_add(dirs, st) ==
    IF dirs = <<>> THEN st
    ELSE LET tile_directory == Head(dirs).tile_directory
         IN  IF tile_directory \notin DOMAIN Assets
             THEN [st EXCEPT !.panicked = TRUE]
             ELSE LET loaded == load_handles(config_files(Assets[tile_directory]), st)
                      added == Len(loaded.request.handles) > Len(st.request.handles)
                  IN  load_dirs_dirty_on_add(
                          Tail(dirs),
                          [loaded EXCEPT !.request.is_dirty = @ \/ added])

\* lines 242-279: the loop over the request's directories
RECURSIVE load_dirs(_, _)
load_dirs(dirs, st) ==
    IF dirs = <<>> THEN st
    ELSE LET tile_directory == Head(dirs).tile_directory
         IN  IF tile_directory \notin DOMAIN Assets
             THEN [st EXCEPT !.panicked = TRUE]
             ELSE LET loaded == load_handles(config_files(Assets[tile_directory]), st)
                  IN  load_dirs(Tail(dirs), [loaded EXCEPT !.request.is_dirty = TRUE])

\* mutant: the is_empty test of line 230 is missing
tileset_name_as_given(loader, n) == loader.name

\* lines 230-234
tileset_name(loader, n) ==
    IF loader.name = "" THEN get_unique_name(n + 1) ELSE loader.name

\* mutant: insert(tileset_name, default) in place of entry().or_insert_with()
entry_inserted(map, name, loader) ==
    [TilesetGenerationRequest_default EXCEPT !.max_columns = loader.max_columns]

\* mutant: line 240 runs only for a new entry, the first max_columns stays
entry_or_insert_first_wins(map, name, loader) ==
    IF name \in DOMAIN map THEN map[name]
    ELSE [TilesetGenerationRequest_default EXCEPT !.max_columns = loader.max_columns]

\* lines 236-240: entry(tileset_name).or_insert_with(default), then max_columns
entry_or_insert(map, name, loader) ==
    LET request == IF name \in DOMAIN map THEN map[name]
                   ELSE TilesetGenerationRequest_default
    IN  [request EXCEPT !.max_columns = loader.max_columns]

\* load_tiles (lines 225-280) on [handles_map, load_state, warnings, uuids]
load_tiles(loader, map, asset_server, warned, n) ==
    LET name == tileset_name(loader, n)
        st == load_dirs(loader.dirs,
                        [request |-> entry_or_insert(map, name, loader),
                         load_state |-> asset_server,
                         warnings |-> warned,
                         panicked |-> FALSE])
    IN  [handles_map |-> [k \in DOMAIN map \cup {name} |->
                             IF k = name THEN st.request ELSE map[k]],
         load_state |-> st.load_state,
         warnings |-> st.warnings,
         uuids |-> IF loader.name = "" THEN n + 1 ELSE n,
         panicked |-> st.panicked]

\* on_load_tileset_event (lines 176-186) reading one LoadTiles event
on_load_tileset_event(loader) ==
    /\ ~panicked
    /\ requests < MaxRequests
    /\ LET after == load_tiles(loader, handles_map, load_state, warnings, uuids)
       IN  /\ Len(after.load_state) <= MaxHandles
           /\ handles_map' = after.handles_map
           /\ load_state' = after.load_state
           /\ warnings' = after.warnings
           /\ uuids' = after.uuids
           /\ panicked' = after.panicked
    /\ requests' = requests + 1
    /\ system' = "on_load_tileset_event"
    /\ UNCHANGED <<tilesets, next_id, events, effects>>

\* ---------------------------------------------------------- create_tileset
\* TilesetBuilder::default: no column limit is set
TilesetBuilder_default == [tiles |-> <<>>, max_columns |-> None]

\* TilesetBuilder::add_handles
add_handles(builder, handles) == [builder EXCEPT !.tiles = @ \o handles]

\* The atlas rows: tiles in order, a new row after max_columns tiles.
RECURSIVE Layout(_, _)
Layout(tiles, max_columns) ==
    IF tiles = <<>> THEN <<>>
    ELSE IF max_columns = None \/ Len(tiles) <= max_columns[1] THEN <<tiles>>
    ELSE <<SubSeq(tiles, 1, max_columns[1])>>
         \o Layout(SubSeq(tiles, max_columns[1] + 1, Len(tiles)), max_columns)

\* TilesetBuilder::build, when it succeeds
build(builder, name, id) ==
    [id |-> id, name |-> name, tiles |-> builder.tiles,
     rows |-> Layout(builder.tiles, builder.max_columns)]

\* mutant: the event of line 218 is sent whether or not build returned Ok
build_tileset_always_sends(name, request, ok, st) ==
    LET id == st.next_id
        builder == add_handles(TilesetBuilder_default, request.handles)
        allocated == [st EXCEPT !.next_id = @ + 1,
                                !.events = Append(@, name),
                                !.effects = Append(@, <<"send", name>>)]
    IN  IF ok
        THEN [allocated EXCEPT
                !.tilesets = Append(@, build(builder, name, id)),
                !.effects = Append(@, <<"register", name>>)]
        ELSE allocated

\* mutant: add_handles of line 215 hands the builder the first handle only
build_tileset_first_handle(name, request, ok, st) ==
    LET id == st.next_id
        builder == add_handles(TilesetBuilder_default, SubSeq(request.handles, 1, 1))
        allocated == [st EXCEPT !.next_id = @ + 1]
    IN  IF ok
        THEN [allocated EXCEPT
                !.tilesets = Append(@, build(builder, name, id)),
                !.events = Append(@, name),
                !.effects = @ \o <<<<"register", name>>, <<"send", name>>>>]
        ELSE allocated

\* lines 213-219: id, builder, and on Ok register and send
build_tileset(name, request, ok, st) ==
    LET id == st.next_id
        builder == add_handles(TilesetBuilder_default, request.handles)
        allocated == [st EXCEPT !.next_id = @ + 1]
    IN  IF ok
        THEN [allocated EXCEPT
                !.tilesets = Append(@, build(builder, name, id)),
                !.events = Append(@, name),
                !.effects = @ \o <<<<"register", name>>, <<"send", name>>>>]
        ELSE allocated

\* mutant: the readiness check of line 208 is missing
retain_entry_unchecked(request, asset_server) ==
    IF len(request) = 0 THEN "discard"
    ELSE IF ~request.is_dirty THEN "discard"
    ELSE "build"

\* mutant: the test of line 208 is inverted, a loaded group waits
retain_entry_inverted(request, asset_server) ==
    IF len(request) = 0 THEN "discard"
    ELSE IF ~request.is_dirty THEN "discard"
    ELSE IF is_loaded(request, asset_server) THEN "keep"
    ELSE "build"

\* mutant: line 201 returns true, an entry without handles stays in the map
retain_entry_keeps_empty(request, asset_server) ==
    IF len(request) = 0 THEN "keep"
    ELSE IF ~request.is_dirty THEN "discard"
    ELSE IF ~is_loaded(request, asset_server) THEN "keep"
    ELSE "build"

\* mutant: the length check of line 199 is missing
retain_entry_unsized(request, asset_server) ==
    IF ~request.is_dirty THEN "discard"
    ELSE IF ~is_loaded(request, asset_server) THEN "keep"
    ELSE "build"

\* the closure of retain (lines 196-222) on one entry: what it does with it
retain_entry(request, asset_server) ==
    IF len(request) = 0 THEN "discard"
    ELSE IF ~request.is_dirty THEN "discard"
    ELSE IF ~is_loaded(request, asset_server) THEN "keep"
    ELSE "build"

\* mutant: line 221 returns true, a built entry stays in the map
retained_after_build(verdict) == verdict # "discard"

\* the closure's return value (lines 200, 205, 210, 221): only an entry whose
\* textures are still loading stays in the map
retained(verdict) == verdict = "keep"

\* mutant: line 221 is inside the Ok branch, a failed build is tried again
retain_step_retrying(name, failing, st) ==
    LET request == st.handles_map[name]
        verdict == retain_entry(request, st.load_state)
        built == IF verdict = "build"
                 THEN build_tileset(name, request, name \notin failing, st)
                 ELSE st
    IN  IF retained(verdict) \/ (verdict = "build" /\ name \in failing) THEN built
        ELSE [built EXCEPT
                !.handles_map = [k \in DOMAIN @ \ {name} |-> @[k]],
                !.load_state = drop_handles(request.handles, @)]

\* mutant: the closure clears is_dirty of an entry it keeps
retain_step_cleaning(name, failing, st) ==
    LET request == st.handles_map[name]
        verdict == retain_entry(request, st.load_state)
        built == IF verdict = "build"
                 THEN build_tileset(name, request, name \notin failing, st)
                 ELSE st
    IN  IF retained(verdict)
        THEN [built EXCEPT !.handles_map[name].is_dirty = FALSE]
        ELSE [built EXCEPT
                !.handles_map = [k \in DOMAIN @ \ {name} |-> @[k]],
                !.load_state = drop_handles(request.handles, @)]

\* the closure of retain (lines 196-222) run on the entry of name
\* st = [handles_map, load_state, tilesets, next_id, events, effects]
retain_step(name, failing, st) ==
    LET request == st.handles_map[name]
        verdict == retain_entry(request, st.load_state)
        built == IF verdict = "build"
                 THEN build_tileset(name, request, name \notin failing, st)
                 ELSE st
    IN  IF retained(verdict) THEN built
        ELSE [built EXCEPT
                !.handles_map = [k \in DOMAIN @ \ {name} |-> @[k]],
                !.load_state = drop_handles(request.handles, @)]

\* mutant: the scan ends at the first entry that is still loading
RECURSIVE retain_blocking(_, _, _)
retain_blocking(order, failing, st) ==
    IF order = <<>> THEN st
    ELSE IF retain_entry(st.handles_map[Head(order)], st.load_state) = "keep"
         THEN st
         ELSE retain_blocking(Tail(order), failing,
                              retain_step(Head(order), failing, st))

\* retain (lines 196-222) over the entries in the order the map yields them
RECURSIVE retain(_, _, _)
retain(order, failing, st) ==
    IF order = <<>> THEN st
    ELSE retain(Tail(order), failing, retain_step(Head(order), failing, st))

Orders(S) == {o \in [1..Cardinality(S) -> S] : \A i, j \in DOMAIN o : o[i] = o[j] => i = j}

Ready(map, asset_server) ==
    {k \in DOMAIN map : retain_entry(map[k], asset_server) = "build"}

\* create_tileset (lines 189-223): order is the map's iteration order, failing
\* the entries whose TilesetBuilder::build returns Err
create_tileset(order, failing) ==
    /\ ~panicked
    /\ LET after == retain(order, failing,
                           [handles_map |-> handles_map, load_state |-> load_state,
                            tilesets |-> tilesets, next_id |-> next_id,
                            events |-> events, effects |-> effects])
       IN  /\ handles_map' = after.handles_map
           /\ load_state' = after.load_state
           /\ tilesets' = after.tilesets
           /\ next_id' = after.next_id
           /\ events' = after.events
           /\ effects' = after.effects
    /\ system' = "create_tileset"
    /\ UNCHANGED <<warnings, uuids, requests, panicked>>

\* ------------------------------------------------------------- environment
\* The asset server finishes loading a texture. A load that fails is a load
\* that never takes this step: is_loaded reads only whether a handle is Loaded.
LoadComplete(h) ==
    /\ ~panicked
    /\ h \in DOMAIN load_state
    /\ load_state[h] = "Loading"
    /\ load_state' = [load_state EXCEPT ![h] = "Loaded"]
    /\ system' = "asset_server"
    /\ UNCHANGED <<handles_map, tilesets, next_id, events, effects, warnings,
                   uuids, requests, panicked>>

\* ----------------------------------------------------------- specification
Init ==
    /\ handles_map = <<>>
    /\ load_state = <<>>
    /\ tilesets = <<>>
    /\ next_id = 0
    /\ events = <<>>
    /\ effects = <<>>
    /\ warnings = 0
    /\ uuids = 0
    /\ requests = 0
    /\ panicked = FALSE
    /\ system = "startup"

\* a frame's run of on_load_tileset_event, of create_tileset, and a load ending
Ingest == \E loader \in TilesetLoadRequest : on_load_tileset_event(loader)

Build ==
    \E order \in Orders(DOMAIN handles_map) :
        \E failing \in SUBSET Ready(handles_map, load_state) :
            create_tileset(order, failing)

Load == \E h \in 1..MaxHandles : LoadComplete(h)

Next == Ingest \/ Build \/ Load

Spec == Init /\ [][Next]_vars

\* The requests of the fair behaviours: no column limit, one directory.
FairRequests ==
    {loader \in TilesetLoadRequest :
        /\ loader.max_columns = None
        /\ loader.dirs \in {<<from_dir("grass")>>, <<from_dir("mixed")>>,
                            <<from_dir("broken")>>}}

FairIngest == \E loader \in FairRequests : on_load_tileset_event(loader)

FairNext == FairIngest \/ Build \/ Load

\* create_tileset runs every frame, and every texture requested is loaded in
\* the end
FairSpec ==
    /\ Init
    /\ [][FairNext]_vars
    /\ WF_vars(system' = "create_tileset" /\ Build)
    /\ WF_vars(system' = "asset_server" /\ Load)

\* ------------------------------------------------------------------ claims
\* the step is a Build Step: create_tileset ran
BuildStep == system' = "create_tileset"

\* the step is an Ingestion Step: on_load_tileset_event ran
IngestionStep == system' = "on_load_tileset_event"

\* every name a group has had in the map, the store or the event stream
GroupNames ==
    DOMAIN handles_map \cup {tilesets[i].name : i \in DOMAIN tilesets}
        \cup {events[i] : i \in DOMAIN events}

\* the tilesets named g that were registered, the LoadedTileset(g) sent
Registered(g) == Cardinality({i \in DOMAIN tilesets : tilesets[i].name = g})
Emitted(g) == Cardinality({i \in DOMAIN events : events[i] = g})

\* g has handles and not all of them are loaded
Pending(g) ==
    /\ g \in DOMAIN handles_map
    /\ len(handles_map[g]) >= 1
    /\ ~is_loaded(handles_map[g], load_state)

\* C1: no step registers a tileset or sends LoadedTileset for a group that has
\* handles of which some are not loaded, and no step removes its entry; a
\* Build Step leaves the entry as it is.
NoPrematureBuild ==
    [][\A g \in DOMAIN handles_map :
          Pending(g) =>
              /\ g \in DOMAIN handles_map'
              /\ Registered(g)' = Registered(g)
              /\ Emitted(g)' = Emitted(g)
              /\ (BuildStep => handles_map'[g] = handles_map[g])]_vars

\* C1 witness: right after a Build Step, a group with two or more handles, one
\* loaded and one still loading, is in the map
PendingGroupSurvivedTick ==
    /\ system = "create_tileset"
    /\ \E g \in DOMAIN handles_map :
          /\ \E i \in DOMAIN handles_map[g].handles :
                load_state[handles_map[g].handles[i]] = "Loaded"
          /\ \E i \in DOMAIN handles_map[g].handles :
                load_state[handles_map[g].handles[i]] = "Loading"

\* C2: a step registers at most one tileset per group, only for a group that is
\* in the map, and removes that entry; a Build Step does nothing for a group
\* that is not in the map.
SingleBuild ==
    [][\A g \in GroupNames \cup GroupNames' :
          /\ Registered(g)' # Registered(g) =>
                /\ Registered(g)' = Registered(g) + 1
                /\ g \in DOMAIN handles_map
                /\ g \notin DOMAIN handles_map'
          /\ (BuildStep /\ g \notin DOMAIN handles_map) =>
                /\ g \notin DOMAIN handles_map'
                /\ Registered(g)' = Registered(g)
                /\ Emitted(g)' = Emitted(g)]_vars

\* C2 witness: right after a Build Step, a group that was built, removed and
\* requested again has been built a second time and removed again
RebuiltAfterNewRequest ==
    /\ system = "create_tileset"
    /\ \E g \in GroupNames :
          /\ Registered(g) = 2
          /\ g \notin DOMAIN handles_map

\* the calls of kind k for group g among the first n effects
EffectsBefore(k, g, n) ==
    Cardinality({i \in 1..n : effects[i] = <<k, g>>})

\* C3: as many LoadedTileset(g) were sent as tilesets named g were registered,
\* and each send comes after the register it announces.
LoadedOncePerBuild ==
    /\ \A g \in GroupNames : Emitted(g) = Registered(g)
    /\ \A n \in DOMAIN effects :
          effects[n][1] = "send" =>
              EffectsBefore("send", effects[n][2], n)
                  <= EffectsBefore("register", effects[n][2], n)

\* C3 witness: of two builds one failed, and the other was registered and
\* announced
OneBuildFailedOneAnnounced ==
    /\ next_id = 2
    /\ Len(tilesets) = 1
    /\ events = <<tilesets[1].name>>

\* the definition files of a request's directories that parse, and that do not
RECURSIVE Definitions(_, _)
Definitions(dirs, parse) ==
    IF dirs = <<>> THEN 0
    ELSE LET files == Assets[Head(dirs).tile_directory]
         IN  Cardinality({i \in DOMAIN files :
                            files[i].ext = "ron" /\ files[i].parse = parse})
                 + Definitions(Tail(dirs), parse)

\* every directory of the request can be read
Readable(loader) ==
    \A i \in DOMAIN loader.dirs : loader.dirs[i].tile_directory \in DOMAIN Assets

\* the handles of group g, none when g has no entry
HandlesOf(g) == IF g \in DOMAIN handles_map THEN handles_map[g].handles ELSE <<>>

\* C4: a request for a named group whose directories are all readable leaves
\* one entry for the name, holding the handles the entry had before followed
\* by one new handle per definition of the request that parses.
MergeIntoOneEntry ==
    [][IngestionStep =>
          \A loader \in TilesetLoadRequest :
              (on_load_tileset_event(loader) /\ Readable(loader) /\ loader.name # "") =>
                  /\ DOMAIN handles_map' = DOMAIN handles_map \cup {loader.name}
                  /\ handles_map'[loader.name].handles =
                        HandlesOf(loader.name)
                            \o [i \in 1..Definitions(loader.dirs, "Ok") |->
                                    Len(load_state) + i]]_vars

\* C4 witness: two requests for "grass", of three and of one definition, are
\* in one entry of four handles
TwoRequestsMerged ==
    /\ requests = 2
    /\ uuids = 0
    /\ DOMAIN handles_map = {"grass"}
    /\ handles_map["grass"].handles = <<1, 2, 3, 4>>

\* C5: a tileset registered by a Build Step is laid out by the max_columns its
\* group's entry held.
LayoutFollowsMaxColumns ==
    [][BuildStep =>
          \A i \in DOMAIN tilesets' \ DOMAIN tilesets :
              tilesets'[i].rows =
                  Layout(tilesets'[i].tiles,
                         handles_map[tilesets'[i].name].max_columns)]_vars

\* C6: a request that panics on a directory has created no handle.
AbortBeforeAnyHandle ==
    [][(IngestionStep /\ panicked') =>
          /\ load_state' = load_state
          /\ \A g \in DOMAIN handles_map' : handles_map'[g].handles = HandlesOf(g)]_vars

\* C7: a request whose directories are all readable creates one handle per
\* definition that parses and writes one warning per definition that does
\* not, and an entry that got a handle is built once its handles are loaded.
ParseFailureIsolation ==
    [][IngestionStep =>
          \A loader \in TilesetLoadRequest :
              (on_load_tileset_event(loader) /\ Readable(loader)) =>
                  LET name == tileset_name(loader, uuids)
                  IN  /\ Len(load_state') = Len(load_state) + Definitions(loader.dirs, "Ok")
                      /\ warnings' = warnings + Definitions(loader.dirs, "Err")
                      /\ Len(handles_map'[name].handles) =
                            Len(HandlesOf(name)) + Definitions(loader.dirs, "Ok")
                      /\ Definitions(loader.dirs, "Ok") > 0 =>
                            retain_entry(handles_map'[name],
                                         [h \in DOMAIN load_state' |-> "Loaded"])
                                = "build"]_vars

\* C7 witness: one request of three definitions that parse and two that do
\* not has been built from its three handles
ThreeOfFiveBuilt ==
    /\ requests = 1
    /\ warnings = 2
    /\ Len(tilesets) = 1
    /\ tilesets[1].tiles = <<1, 2, 3>>

\* C8: a Build Step removes every entry that has no handle, and registers and
\* announces nothing for it.
EmptyGroupDiscarded ==
    [][BuildStep =>
          \A g \in DOMAIN handles_map :
              len(handles_map[g]) = 0 =>
                  /\ g \notin DOMAIN handles_map'
                  /\ Registered(g)' = Registered(g)
                  /\ Emitted(g)' = Emitted(g)]_vars

\* C8 witness: right after a Build Step, the entry of a request whose
\* directory held only malformed definitions is gone and nothing was built
MalformedOnlyGroupGone ==
    /\ system = "create_tileset"
    /\ requests = 1
    /\ warnings = 2
    /\ load_state = <<>>
    /\ handles_map = <<>>
    /\ next_id = 0
    /\ events = <<>>

\* g is non-empty, dirty and fully loaded
ReadyToBuild(g) ==
    /\ g \in DOMAIN handles_map
    /\ len(handles_map[g]) >= 1
    /\ handles_map[g].is_dirty
    /\ is_loaded(handles_map[g], load_state)

\* C9: the Build Step that finds a group non-empty, dirty and fully loaded
\* allocates an id for it, registers and announces it or (the build failing)
\* does neither, and removes its entry; and when create_tileset keeps running
\* and the textures get loaded, the entries in the map are all removed in the
\* end (unless load_tiles panics).
BoundedResponse ==
    /\ [][BuildStep =>
            \A g \in DOMAIN handles_map :
                ReadyToBuild(g) =>
                    /\ g \notin DOMAIN handles_map'
                    /\ next_id' > next_id
                    /\ \/ /\ Registered(g)' = Registered(g) + 1
                          /\ Emitted(g)' = Emitted(g) + 1
                       \/ /\ Registered(g)' = Registered(g)
                          /\ Emitted(g)' = Emitted(g)]_vars
    /\ (handles_map # <<>>) ~> (handles_map = <<>> \/ panicked)

\* C9 witness: right after a Build Step, the one group requested, of one
\* definition, whose texture is loaded, is registered, announced and removed
GrassBuiltAtFirstTick ==
    /\ system = "create_tileset"
    /\ requests = 1
    /\ load_state = <<"Dropped">>
    /\ handles_map = <<>>
    /\ Len(tilesets) = 1
    /\ tilesets[1].rows = <<<<1>>>>
    /\ events = <<tilesets[1].name>>

\* the entry of g is one create_tileset keeps: it has handles, is dirty, and
\* not all of its handles are loaded
KeptByItself(g) ==
    /\ len(handles_map[g]) >= 1
    /\ handles_map[g].is_dirty
    /\ ~is_loaded(handles_map[g], load_state)

\* C10: in a Build Step every entry is kept, unchanged, exactly when its own
\* handles, dirty flag and load states say so, and is built and removed when
\* its own handles are loaded, whatever the other entries are.
GroupsDoNotBlock ==
    [][BuildStep =>
          \A g \in DOMAIN handles_map :
              /\ g \in DOMAIN handles_map' <=> KeptByItself(g)
              /\ KeptByItself(g) =>
                    /\ handles_map'[g] = handles_map[g]
                    /\ Registered(g)' = Registered(g)
              /\ ReadyToBuild(g) =>
                    /\ Registered(g)' \in {Registered(g), Registered(g) + 1}
                    /\ Emitted(g)' - Emitted(g) = Registered(g)' - Registered(g)]_vars

\* C10 witness: right after a Build Step, the group of the first handle is in
\* the map with that handle still loading while a group requested after it has
\* been built
BuiltBesidePending ==
    /\ system = "create_tileset"
    /\ \E g \in DOMAIN handles_map :
          /\ len(handles_map[g]) >= 1
          /\ handles_map[g].handles[1] = 1
          /\ load_state[1] = "Loading"
    /\ Len(tilesets) = 1
    /\ tilesets[1].tiles[1] > 1

\* the first directory of the request can be read: line 278 is reached
FirstReadable(loader) ==
    /\ loader.dirs # <<>>
    /\ loader.dirs[1].tile_directory \in DOMAIN Assets

\* C11 as stated: an entry is dirty exactly when a handle was added to it
\* since its creation, that is, when it holds a handle.
DirtyIffHandleAdded ==
    \A g \in DOMAIN handles_map :
        handles_map[g].is_dirty <=> len(handles_map[g]) >= 1

\* C11 as amended: an entry is dirty exactly when an Ingestion Step has read a
\* directory for it since its creation, whether or not the directory added a
\* handle; no other step changes the flag of an entry.
DirtyOnceDirectoryRead ==
    [][\A g \in DOMAIN handles_map' :
          LET was == g \in DOMAIN handles_map /\ handles_map[g].is_dirty
          IN  IF IngestionStep
              THEN \A loader \in TilesetLoadRequest :
                      on_load_tileset_event(loader) =>
                          handles_map'[g].is_dirty =
                              (was \/ (tileset_name(loader, uuids) = g
                                          /\ FirstReadable(loader)))
              ELSE handles_map'[g].is_dirty = was]_vars

\* C11 witness: the entry of a request whose directory held only malformed
\* definitions is dirty and has no handle
DirtyWithoutHandle ==
    /\ system = "on_load_tileset_event"
    /\ warnings = 2
    /\ \E g \in DOMAIN handles_map :
          /\ handles_map[g].is_dirty
          /\ len(handles_map[g]) = 0

\* C12 as stated: after a request that did not panic, its entry is dirty and
\* holds the request's max_columns.
DirtyAndColumnsAfterRequest ==
    [][IngestionStep =>
          \A loader \in TilesetLoadRequest :
              (on_load_tileset_event(loader) /\ ~panicked') =>
                  LET request == handles_map'[tileset_name(loader, uuids)]
                  IN  /\ request.is_dirty
                      /\ request.max_columns = loader.max_columns]_vars

\* C12 as amended: after a request that did not panic, its entry holds the
\* request's max_columns, whatever it held before, and is dirty when the
\* request has at least one directory.
DirtyAndColumnsAfterDirectories ==
    [][IngestionStep =>
          \A loader \in TilesetLoadRequest :
              (on_load_tileset_event(loader) /\ ~panicked') =>
                  LET request == handles_map'[tileset_name(loader, uuids)]
                  IN  /\ loader.dirs # <<>> => request.is_dirty
                      /\ request.max_columns = loader.max_columns]_vars

\* C12 witness: two requests for "grass" have been ingested into one entry,
\* which is dirty and holds a column limit
SecondRequestSetColumns ==
    /\ system = "on_load_tileset_event"
    /\ requests = 2
    /\ uuids = 0
    /\ ~panicked
    /\ DOMAIN handles_map = {"grass"}
    /\ handles_map["grass"].is_dirty
    /\ handles_map["grass"].max_columns = Some(2)
    /\ len(handles_map["grass"]) = 2

\* the ready groups for which the step registers nothing: their build failed
FailedBuilds ==
    {g \in Ready(handles_map, load_state) : Registered(g)' = Registered(g)}

\* C13: a Build Step is create_tileset with the builds failing of exactly the
\* ready groups it registers nothing for; it removes the entries of those
\* groups and announces nothing for them; and it allocates one id per ready
\* entry in the map, so a group whose entry is gone is not built again.
FailedBuildDiscarded ==
    [][BuildStep =>
          /\ next_id' = next_id + Cardinality(Ready(handles_map, load_state))
          /\ \E order \in Orders(DOMAIN handles_map) :
                create_tileset(order, FailedBuilds)
          /\ \A g \in FailedBuilds :
                /\ g \notin DOMAIN handles_map'
                /\ Emitted(g)' = Emitted(g)]_vars

\* C13 witness: right after a Build Step, the only build attempted has failed:
\* an id is used, the entry and its handle are gone, nothing is registered or
\* announced
FailedBuildLeftNothing ==
    /\ system = "create_tileset"
    /\ next_id = 1
    /\ load_state = <<"Dropped">>
    /\ handles_map = <<>>
    /\ tilesets = <<>>
    /\ events = <<>>

\* C14: a Build Step adds no entry and leaves every entry it keeps as it was.
BuildStepFrame ==
    [][BuildStep =>
          /\ DOMAIN handles_map' \subseteq DOMAIN handles_map
          /\ \A g \in DOMAIN handles_map' : handles_map'[g] = handles_map[g]]_vars

\* C14 witness: right after a Build Step that built one group, another entry,
\* of three handles, is in the map with its flag and its column limit
KeptEntryUntouched ==
    /\ system = "create_tileset"
    /\ Len(tilesets) = 1
    /\ \E g \in DOMAIN handles_map :
          /\ len(handles_map[g]) = 3
          /\ handles_map[g].is_dirty
          /\ handles_map[g].max_columns = Some(2)

\* C15: a request (its directories readable) for a group that has no entry
\* makes an entry of its own new handles only; a request for a group that has an entry appends its handles
\* to the entry's; and a tileset is built from all the handles of its entry.
FreshAccumulationAfterRemoval ==
    [][/\ IngestionStep =>
            \A loader \in TilesetLoadRequest :
                (on_load_tileset_event(loader) /\ Readable(loader)) =>
                    LET name == tileset_name(loader, uuids)
                        new == [i \in 1..Definitions(loader.dirs, "Ok") |->
                                    Len(load_state) + i]
                    IN  /\ name \notin DOMAIN handles_map =>
                              handles_map'[name].handles = new
                        /\ name \in DOMAIN handles_map =>
                              handles_map'[name].handles =
                                  handles_map[name].handles \o new
       /\ BuildStep =>
            \A i \in DOMAIN tilesets' \ DOMAIN tilesets :
                tilesets'[i].tiles = handles_map[tilesets'[i].name].handles]_vars

\* C15 witness: a group was built from one handle, requested again after its
\* entry was removed, and built again from the three new handles alone
SecondBuildFromNewHandles ==
    /\ Len(tilesets) = 2
    /\ tilesets[1].name = tilesets[2].name
    /\ tilesets[1].tiles = <<1>>
    /\ tilesets[2].tiles = <<2, 3, 4>>

\* C16: every entry that holds a handle is dirty, so the rule of line 203 never
\* decides for an entry that holds a handle.
HandlesImplyDirty ==
    \A g \in DOMAIN handles_map :
        len(handles_map[g]) >= 1 => handles_map[g].is_dirty

\* C16 witness: an entry with handles, dirty, beside an entry that is not dirty
DirtyBesideClean ==
    \E g, h \in DOMAIN handles_map :
        /\ len(handles_map[g]) >= 1
        /\ handles_map[g].is_dirty
        /\ ~handles_map[h].is_dirty

\* C17: right after a Build Step every entry in the map has a handle, is dirty
\* and has a handle that is not loaded.
OnlyPendingSurvive ==
    system = "create_tileset" => \A g \in DOMAIN handles_map : KeptByItself(g)

\* C17 witness: right after a Build Step that discarded an empty group, two
\* entries are in the map
TwoPendingAfterTick ==
    /\ system = "create_tileset"
    /\ Cardinality(DOMAIN handles_map) = 2

\* C18: the empty string is never a key of the map; a request with the empty
\* name makes a new entry under a name that was not a key, and leaves the
\* other entries as they were; a request with a name uses the entry of that
\* name and makes no other.
EmptyNameGetsOwnEntry ==
    /\ [][IngestionStep =>
            \A loader \in TilesetLoadRequest :
                on_load_tileset_event(loader) =>
                    IF loader.name = ""
                    THEN /\ Cardinality(DOMAIN handles_map') =
                                Cardinality(DOMAIN handles_map) + 1
                         /\ \A g \in DOMAIN handles_map :
                                /\ g \in DOMAIN handles_map'
                                /\ handles_map'[g] = handles_map[g]
                    ELSE DOMAIN handles_map' =
                             DOMAIN handles_map \cup {loader.name}]_vars
    /\ []("" \notin DOMAIN handles_map)

\* C18 witness: two requests with the empty name are in two entries
TwoUnnamedGroups ==
    /\ uuids = 2
    /\ DOMAIN handles_map = {get_unique_name(1), get_unique_name(2)}

====
